---- MODULE Spec2Model ----
(***************************************************************************)
(* The weekly war scheduler of the Discord bot: the sent_events ledger,    *)
(* the war_participants store, the two vote handlers (bot.py and           *)
(* cogs/war.py) and the two 5-minute loops check_war_poll_schedule and     *)
(* check_war_reminders, the admin commands /resetwar and /resetallwar, the *)
(* daily task cleanup_old_data, the restart of the process, the helper     *)
(* _discord_call with its callers safe_send_message and safe_send_modal,   *)
(* the admin commands /setwar, /setpollschedule and /warpoll, and the      *)
(* admin buttons of a join request (views/join_views.py).                  *)
(*                                                                         *)
(* Time is counted in minutes since Monday 2024-01-01 00:00 UTC.  The host *)
(* process runs in HostZone, each guild has its own configured timezone.   *)
(***************************************************************************)
EXTENDS Integers, Sequences, FiniteSets, TLC

VARIABLES
    now,               \* the instant, minutes since the epoch (UTC)
    pollLoopRan,       \* check_war_poll_schedule has run for the current tick
    reminderLoopRan,   \* check_war_reminders has run for the current tick
    server_settings,   \* table server_settings: guild -> row
    sent_events,       \* table sent_events: set of rows
    sent_events_seq,   \* last id handed out for sent_events
    war_participants,  \* table war_participants: set of rows
    players,           \* table players: set of <<user_id, guild_id>> with a profile
    presses,           \* number of vote buttons pressed so far
    failures,          \* number of storage, configuration and send failures so far
    delivered,         \* messages the last step delivered to war channels
    error_log,         \* the errors the last step logged: <<guild, failed call>>
    dispatched,        \* guild -> kind -> number of messages delivered so far
    probe,             \* the inputs and the results of the function under test
    boot               \* the bot process: its starts, the polls sent before the last
                       \* start, whether cleanup_old_data has run since

vars == <<now, pollLoopRan, reminderLoopRan, server_settings, sent_events,
          sent_events_seq, war_participants, players, presses, failures, delivered,
          error_log, dispatched, probe, boot>>

-----------------------------------------------------------------------------
(* Bounds of the model *)

\* number of 5-minute ticks a run lasts
MaxTicks == 5
\* the loops start at StartInstant + p minutes for some p in 0..MaxPhase
MaxPhase == 1
\* number of vote buttons the members press in a run
MaxPresses == 6
\* number of calls that fail in a run
MaxFailures == 1

-----------------------------------------------------------------------------
(* Calendar: what datetime and strftime compute *)

None == "None"

HourMinutes == 60
DayMinutes == 24 * HourMinutes
WeekMinutes == 7 * DayMinutes

\* the host's local zone, the zone of a naive datetime.now()
HostZone == "UTC"

\* pytz.timezone(name).utcoffset, in minutes, for January 2024
UtcOffset(zone) ==
    CASE zone = "UTC" -> 0
      [] zone = "Africa/Cairo" -> 2 * HourMinutes

\* datetime.now(tz) as local minutes since the (local) epoch Monday
LocalTime(t, zone) == t + UtcOffset(zone)

DayIndex(local) == local \div DayMinutes
\* datetime.weekday(): 0 = Monday ... 6 = Sunday
Weekday(local) == DayIndex(local) % 7
Hour(local) == (local % DayMinutes) \div HourMinutes
Minute(local) == local % HourMinutes

DayNames ==
    <<"Monday", "Tuesday", "Wednesday", "Thursday", "Friday", "Saturday", "Sunday">>
\* strftime("%A")
StrftimeA(local) == DayNames[Weekday(local) + 1]

\* 2024 is a leap year and starts on the epoch Monday
DaysIn2024 == 365 + 1
StrftimeY(local) == IF DayIndex(local) < DaysIn2024 THEN 2024 ELSE 2025
\* day of the year, 0-based (tm_yday - 1)
YearDay(local) ==
    IF DayIndex(local) < DaysIn2024 THEN DayIndex(local)
    ELSE DayIndex(local) - DaysIn2024
\* days since Sunday (tm_wday): 0 = Sunday ... 6 = Saturday
DaysSinceSunday(local) == (Weekday(local) + 1) % 7
\* strftime("%U"): week of the year, Sunday as the first day of the week, the
\* days before the first Sunday are in week 0
StrftimeU(local) == (YearDay(local) + 7 - DaysSinceSunday(local)) \div 7

\* strftime("%Y-W%U") as the pair it prints
StrftimeYWU(local) == <<StrftimeY(local), StrftimeU(local)>>

\* get_current_poll_week(): datetime.now().strftime("%Y-W%U"), a naive
\* datetime.now() being the host's local time
PollWeekAt(t) == StrftimeYWU(LocalTime(t, HostZone))
get_current_poll_week == PollWeekAt(now)

\* the Monday-to-Sunday calendar week an instant lies in, in a zone
CalendarWeek(t, zone) == LocalTime(t, zone) \div WeekMinutes

-----------------------------------------------------------------------------
(* The guilds, their members and their configuration *)

Guilds == {1, 2}
\* bot.guilds, in iteration order
GuildOrder == <<1, 2>>
Users == {"A", "B", "C", "D"}
\* guild.get_channel(id) resolves exactly these ids
GuildChannels == [g \in Guilds |-> IF g = 1 THEN {11} ELSE {22}]

\* the buttons the members press, in this order and at any time, over and
\* over: <<guild, user, choice>>
VoteScript ==
    <<<<1, "A", "saturday">>, <<1, "B", "saturday">>, <<1, "C", "both">>,
      <<1, "D", "sunday">>, <<2, "A", "sunday">>, <<1, "D", "none">>>>
NextVote == VoteScript[(presses % Len(VoteScript)) + 1]

\* Saturday 2024-01-06 23:40 UTC, when the loops are started
StartInstant == 5 * DayMinutes + 23 * HourMinutes + 40

\* server_settings rows as the admin commands left them
InitSettings ==
    [g \in Guilds |->
        IF g = 1
        THEN [poll_day |-> "Saturday", poll_time_hour |-> 23, poll_time_minute |-> 45,
              saturday_war_hour |-> 23, saturday_war_minute |-> 55,
              sunday_war_hour |-> 0, sunday_war_minute |-> 5,
              reminder_hours_before |-> 0, war_channel_id |-> 11,
              timezone |-> "UTC"]
        ELSE [poll_day |-> "Sunday", poll_time_hour |-> 2, poll_time_minute |-> 0,
              saturday_war_hour |-> 22, saturday_war_minute |-> 30,
              sunday_war_hour |-> 2, sunday_war_minute |-> 5,
              reminder_hours_before |-> 0, war_channel_id |-> 22,
              timezone |-> "Africa/Cairo"]]

\* @tasks.loop(minutes=5)
TickMinutes == 5
\* "if time_diff < 5"
Tolerance == 5

EndInstant == StartInstant + MaxTicks * TickMinutes

Abs(x) == IF x < 0 THEN -x ELSE x

\* variant: only the tick of the very minute passes the test
WithinTolerance_Exact(time_diff) == time_diff = 0

\* variant: the test lets a tick of the neighbouring interval pass as well
WithinTolerance_Wide(time_diff) == time_diff < 2 * Tolerance

\* "if time_diff < 5:" and "if abs(current_time - reminder_time) < 5:"
WithinTolerance(time_diff) == time_diff < Tolerance

-----------------------------------------------------------------------------
(* database.py: the operations on the tables.  A db value is the record    *)
(* [ev, seq, wp, msgs, errs, count] of sent_events, its id sequence,       *)
(* war_participants, the messages delivered and the errors logged by the   *)
(* step and the number of deliveries; ok = FALSE is the operation's except *)
(* branch                                                                  *)

Db ==
    [ev |-> sent_events, seq |-> sent_events_seq, wp |-> war_participants,
     msgs |-> {}, errs |-> {}, count |-> dispatched]

\* UNIQUE(guild_id, event_type, event_week, event_day): the rows an insert
\* conflicts with; a NULL event_day conflicts with nothing
SentEventsConflict(db, guild_id, event_type, event_week, event_day) ==
    {r \in db.ev : /\ r.guild_id = guild_id
                   /\ r.event_type = event_type
                   /\ r.event_week = event_week
                   /\ event_day # None
                   /\ r.event_day = event_day}

\* "except Exception as e: logger.error(...)" of a Database method
StorageError(db, guild_id, call, ok) ==
    IF ok THEN db ELSE [db EXCEPT !.errs = @ \cup {<<guild_id, call>>}]

\* variant: the ledger is not consulted
was_event_sent_Never(db, guild_id, event_type, event_week, event_day, ok) == FALSE

was_event_sent(db, guild_id, event_type, event_week, event_day, ok) ==
    IF ~ok THEN FALSE
    ELSE IF event_day # None
    THEN \E r \in db.ev : /\ r.guild_id = guild_id
                          /\ r.event_type = event_type
                          /\ r.event_week = event_week
                          /\ r.event_day = event_day
    ELSE \E r \in db.ev : /\ r.guild_id = guild_id
                          /\ r.event_type = event_type
                          /\ r.event_week = event_week

mark_event_sent(db, guild_id, event_type, event_week, event_day, ok) ==
    IF ~ok THEN StorageError(db, guild_id, "mark", ok)
    ELSE LET conflict ==
                 SentEventsConflict(db, guild_id, event_type, event_week, event_day)
         IN  IF conflict # {}
             THEN [db EXCEPT !.ev = (db.ev \ conflict)
                                     \cup {[r EXCEPT !.sent_at = now] : r \in conflict}]
             ELSE [db EXCEPT !.ev = db.ev \cup
                                     {[id |-> db.seq + 1, guild_id |-> guild_id,
                                       event_type |-> event_type,
                                       event_week |-> event_week,
                                       event_day |-> event_day, sent_at |-> now]},
                             !.seq = db.seq + 1]

Database_set_war_participation(db, user_id, guild_id, poll_week, participation_type) ==
    [db EXCEPT !.wp =
        {r \in db.wp : ~(r.user_id = user_id /\ r.guild_id = guild_id
                         /\ r.poll_week = poll_week)}
        \cup {[user_id |-> user_id, guild_id |-> guild_id, poll_week |-> poll_week,
               participation_type |-> participation_type]}]

Database_get_war_participants(db, guild_id, poll_week, participation_type) ==
    {r.user_id : r \in {x \in db.wp : /\ x.guild_id = guild_id
                                      /\ x.poll_week = poll_week
                                      /\ x.participation_type = participation_type}}

get_war_participants_by_type(db, guild_id, poll_week) ==
    [t \in {"saturday", "sunday", "both", "not_playing"} |->
        Database_get_war_participants(db, guild_id, poll_week, t)]

\* variant: the votes of the week are kept
clear_war_participants_Kept(db, guild_id, poll_week, ok) == db

clear_war_participants(db, guild_id, poll_week, ok) ==
    IF ~ok THEN StorageError(db, guild_id, "clear", ok)
    ELSE [db EXCEPT !.wp = {r \in db.wp : ~(r.guild_id = guild_id
                                            /\ r.poll_week = poll_week)}]

get_player(user_id, guild_id) == <<user_id, guild_id>> \in players

-----------------------------------------------------------------------------
(* bot.py and utils/war_helpers.py: the war helpers *)

\* bot.py get_war_participants(guild_id), for the current poll week
get_war_participants(db, guild_id) ==
    [saturday_players |->
        Database_get_war_participants(db, guild_id, get_current_poll_week, "saturday"),
     sunday_players |->
        Database_get_war_participants(db, guild_id, get_current_poll_week, "sunday"),
     both_days_players |->
        Database_get_war_participants(db, guild_id, get_current_poll_week, "both"),
     not_playing |->
        Database_get_war_participants(db, guild_id, get_current_poll_week, "none")]

DayChoices == {"saturday", "sunday", "both", "none"}

\* bot.py set_war_participation(guild_id, user_id, day_choice)
set_war_participation(db, guild_id, user_id, day_choice) ==
    IF day_choice \in DayChoices
    THEN Database_set_war_participation(db, user_id, guild_id,
                                        get_current_poll_week, day_choice)
    ELSE db

\* utils/war_helpers.py set_war_participation(db, guild_id, user_id, day_choice)
helpers_set_war_participation(db, guild_id, user_id, day_choice) ==
    IF day_choice \in DayChoices
    THEN Database_set_war_participation(db, user_id, guild_id, get_current_poll_week,
             IF day_choice = "none" THEN "not_playing" ELSE day_choice)
    ELSE db

get_war_config(guild_id) ==
    LET settings == server_settings[guild_id]
    IN  [poll_day |-> settings.poll_day,
         poll_time |-> [hour |-> settings.poll_time_hour,
                        minute |-> settings.poll_time_minute],
         saturday_war |-> [hour |-> settings.saturday_war_hour,
                           minute |-> settings.saturday_war_minute],
         sunday_war |-> [hour |-> settings.sunday_war_hour,
                         minute |-> settings.sunday_war_minute],
         reminder_hours |-> settings.reminder_hours_before,
         war_channel_id |-> settings.war_channel_id,
         timezone |-> settings.timezone]


-----------------------------------------------------------------------------
(* bot.py: the scheduled tasks.  The body of the per-guild try block is an *)
(* operator from a db value to [db, raised]: raised = TRUE when the body   *)
(* left by an exception, error the call that raised it.  fault names the   *)
(* one call that fails for this guild in this tick ("none": every call     *)
(* succeeds).                                                              *)

EventTypes == {"war_poll", "saturday_reminder", "sunday_reminder"}

NoFaults == {"none"}
\* a call of the iteration raises: reading the configuration, channel.send
RaisingFaults == {"none", "config", "send"}
\* a Database method takes its except branch and returns False
StorageFaults == {"none", "was_sent", "clear", "mark"}

Returned(db) == [db |-> db, raised |-> FALSE, error |-> "none"]
Raised(db, error) == [db |-> db, raised |-> TRUE, error |-> error]

\* await channel.send(...) returned: the message is in the channel
Deliver(db, guild_id, channel_id, kind, poll_week, mentions) ==
    [db EXCEPT !.msgs = db.msgs \cup
                        {[guild_id |-> guild_id, channel_id |-> channel_id,
                          kind |-> kind, poll_week |-> poll_week,
                          mentions |-> mentions]},
               !.count[guild_id][kind] = @ + 1]

\* variant: the mark is written before the send is awaited
SendAndMark_MarkFirst(db, guild_id, channel_id, event_type, poll_week, event_day, mentions, fault) ==
    IF fault = "send"
    THEN Raised(mark_event_sent(db, guild_id, event_type, poll_week, event_day,
                                fault # "mark"), fault)
    ELSE Returned(mark_event_sent(
             Deliver(db, guild_id, channel_id, event_type, poll_week, mentions),
             guild_id, event_type, poll_week, event_day, fault # "mark"))

\* "await channel.send(...)" and then "db.mark_event_sent(...)": the mark is
\* reached only when the send returned
SendAndMark(db, guild_id, channel_id, event_type, poll_week, event_day, mentions, fault) ==
    IF fault = "send" THEN Raised(db, fault)
    ELSE Returned(mark_event_sent(
             Deliver(db, guild_id, channel_id, event_type, poll_week, mentions),
             guild_id, event_type, poll_week, event_day, fault # "mark"))

\* variant: the poll is sent before the votes are cleared
ClearSendMark_SendFirst(db, guild_id, channel_id, poll_week, fault) ==
    LET sent == SendAndMark(db, guild_id, channel_id, "war_poll", poll_week, None,
                            {}, fault)
    IN  IF sent.raised THEN sent
        ELSE Returned(clear_war_participants(sent.db, guild_id, poll_week,
                                             fault # "clear"))

\* check_war_poll_schedule, once the poll is due, unmarked and its channel
\* found: "db.clear_war_participants(...)", then the embed is built and
\* "await channel.send(...)", then "db.mark_event_sent(...)"
ClearSendMark(db, guild_id, channel_id, poll_week, fault) ==
    SendAndMark(clear_war_participants(db, guild_id, poll_week, fault # "clear"),
                guild_id, channel_id, "war_poll", poll_week, None, {}, fault)

\* check_war_poll_schedule: the body of the inner try, for one guild
PollGuildBody(db, guild_id, fault) ==
    IF fault = "config" THEN Raised(db, fault)
    ELSE
    LET config == get_war_config(guild_id)
        local == LocalTime(now, config.timezone)
        current_day == StrftimeA(local)
        time_diff == Abs((config.poll_time.hour * HourMinutes + config.poll_time.minute)
                         - (Hour(local) * HourMinutes + Minute(local)))
        poll_week == get_current_poll_week
        channel_id == config.war_channel_id
        checked == StorageError(db, guild_id, "was_sent", fault # "was_sent")
    IN  IF config.poll_day # current_day THEN Returned(db)
        ELSE IF ~WithinTolerance(time_diff) THEN Returned(db)
        ELSE IF was_event_sent(db, guild_id, "war_poll", poll_week, None,
                               fault # "was_sent")
             THEN Returned(checked)
        ELSE IF channel_id = 0 THEN Returned(checked)
        ELSE IF channel_id \notin GuildChannels[guild_id] THEN Returned(checked)
        ELSE ClearSendMark(checked, guild_id, channel_id, poll_week, fault)

\* check_war_reminders: one branch (Saturday or Sunday) of the inner try
ReminderBranch(db, guild_id, fault, config, local, war, event_type, event_day, day_players) ==
    LET reminder_time == (war.hour * HourMinutes + war.minute)
                         - (config.reminder_hours * HourMinutes)
        current_time == Hour(local) * HourMinutes + Minute(local)
        poll_week == get_current_poll_week
        \* the result of was_event_sent only selects a log line
        already == was_event_sent(db, guild_id, event_type, poll_week, event_day,
                                  fault # "was_sent")
        checked == StorageError(db, guild_id, "was_sent", fault # "was_sent")
        channel_id == config.war_channel_id
        participants == get_war_participants(db, guild_id)
        player_ids == participants[day_players] \cup participants.both_days_players
    IN  IF ~WithinTolerance(Abs(current_time - reminder_time)) THEN Returned(db)
        ELSE IF channel_id = 0 THEN Returned(checked)
        ELSE IF channel_id \notin GuildChannels[guild_id] THEN Returned(checked)
        ELSE IF player_ids = {} THEN Returned(checked)
        ELSE SendAndMark(checked, guild_id, channel_id, event_type, poll_week,
                         event_day, player_ids, fault)

\* check_war_reminders: the body of the inner try, for one guild
ReminderGuildBody(db, guild_id, fault) ==
    IF fault = "config" THEN Raised(db, fault)
    ELSE
    LET config == get_war_config(guild_id)
        local == LocalTime(now, config.timezone)
        current_day == Weekday(local)
    IN  IF current_day = 5
        THEN ReminderBranch(db, guild_id, fault, config, local, config.saturday_war,
                            "saturday_reminder", "Saturday", "saturday_players")
        ELSE IF current_day = 6
        THEN ReminderBranch(db, guild_id, fault, config, local, config.sunday_war,
                            "sunday_reminder", "Sunday", "sunday_players")
        ELSE Returned(db)

\* variant: an exception leaves the for loop
NextGuildIndex_Abort(result, i) ==
    IF result.raised THEN Len(GuildOrder) + 1 ELSE i + 1

\* "except Exception as e: logger.error(...)" inside the for loop: whether
\* the body returned or raised, the loop goes on with the next guild
NextGuildIndex(result, i) == i + 1

\* the except branch logs the guild's error
Logged(result, guild_id) ==
    IF result.raised
    THEN [result.db EXCEPT !.errs = @ \cup {<<guild_id, result.error>>}]
    ELSE result.db

RECURSIVE PollLoop(_, _, _)
PollLoop(db, i, faults) ==
    IF i > Len(GuildOrder) THEN db
    ELSE LET result == PollGuildBody(db, GuildOrder[i], faults[GuildOrder[i]])
         IN  PollLoop(Logged(result, GuildOrder[i]), NextGuildIndex(result, i), faults)

RECURSIVE ReminderLoop(_, _, _)
ReminderLoop(db, i, faults) ==
    IF i > Len(GuildOrder) THEN db
    ELSE LET result == ReminderGuildBody(db, GuildOrder[i], faults[GuildOrder[i]])
         IN  ReminderLoop(Logged(result, GuildOrder[i]), NextGuildIndex(result, i),
                          faults)

SetDb(db) ==
    /\ sent_events' = db.ev
    /\ sent_events_seq' = db.seq
    /\ war_participants' = db.wp
    /\ delivered' = db.msgs
    /\ error_log' = db.errs
    /\ dispatched' = db.count

\* one run of the task check_war_poll_schedule
\* the number of guilds whose iteration meets a failure
Failing(faults) == Cardinality({g \in Guilds : faults[g] # "none"})

check_war_poll_schedule(F) ==
    /\ ~pollLoopRan
    /\ \E faults \in [Guilds -> F] :
           /\ failures + Failing(faults) <= MaxFailures
           /\ failures' = failures + Failing(faults)
           /\ SetDb(PollLoop(Db, 1, faults))
    /\ pollLoopRan' = TRUE
    /\ UNCHANGED <<now, reminderLoopRan, server_settings, players, presses, probe, boot>>

\* one run of the task check_war_reminders
check_war_reminders(F) ==
    /\ ~reminderLoopRan
    /\ \E faults \in [Guilds -> F] :
           /\ failures + Failing(faults) <= MaxFailures
           /\ failures' = failures + Failing(faults)
           /\ SetDb(ReminderLoop(Db, 1, faults))
    /\ reminderLoopRan' = TRUE
    /\ UNCHANGED <<now, pollLoopRan, server_settings, players, presses, probe, boot>>

\* both loops sleep until their next iteration, 5 minutes later
Sleep ==
    /\ pollLoopRan
    /\ reminderLoopRan
    /\ now + TickMinutes <= EndInstant + MaxPhase
    /\ now' = now + TickMinutes
    /\ pollLoopRan' = FALSE
    /\ reminderLoopRan' = FALSE
    /\ delivered' = {}
    /\ error_log' = {}
    /\ UNCHANGED <<server_settings, sent_events, sent_events_seq, war_participants,
                   players, presses, failures, dispatched, probe, boot>>

-----------------------------------------------------------------------------
(* The vote handlers *)

\* bot.py WarPollButtons.saturday_button / sunday_button / both_button /
\* none_button: the vote is stored before the confirmation is sent
WarPollButtons_vote(guild_id, user_id, choice) ==
    /\ SetDb(set_war_participation(Db, guild_id, user_id, choice))
    /\ presses' = presses + 1
    /\ UNCHANGED <<now, pollLoopRan, reminderLoopRan, server_settings, players,
                   failures, probe, boot>>

\* Database.async_run(fn, *args): runs fn(*args) off the event loop and
\* returns its result
async_run(result) == result

\* cogs/war.py WarPollView._handle_vote: "p.get(...)" on a user id raises
\* AttributeError as soon as one of the four lists holds an entry
PreviousChoiceRaises(participants_by_type) ==
    \E t \in DOMAIN participants_by_type : participants_by_type[t] # {}

WarPollView_handle_vote(guild_id, user_id, choice) ==
    /\ SetDb(IF ~async_run(get_player(user_id, guild_id)) THEN Db
             ELSE IF PreviousChoiceRaises(
                        async_run(get_war_participants_by_type(
                                      Db, guild_id, get_current_poll_week)))
             THEN Db
             ELSE helpers_set_war_participation(Db, guild_id, user_id, choice))
    /\ presses' = presses + 1
    /\ UNCHANGED <<now, pollLoopRan, reminderLoopRan, server_settings, players,
                   failures, probe, boot>>

-----------------------------------------------------------------------------
(* The specifications *)

NoProbe == [t1 |-> 0, t2 |-> 0, w1 |-> <<0, 0>>, w2 |-> <<0, 0>>]

\* the process was started once, no poll had been sent before, and the daily
\* cleanup has not run yet
FirstBoot == [starts |-> 1, polled |-> {}, cleaned |-> FALSE]

Init ==
    /\ now \in {StartInstant + p : p \in 0..MaxPhase}
    /\ pollLoopRan = FALSE
    /\ reminderLoopRan = FALSE
    /\ server_settings = InitSettings
    /\ sent_events = {}
    /\ sent_events_seq = 0
    /\ war_participants = {}
    /\ players = (Users \X Guilds) \ {<<"D", 2>>}
    /\ presses = 0
    /\ failures = 0
    /\ delivered = {}
    /\ error_log = {}
    /\ dispatched = [g \in Guilds |-> [k \in EventTypes |-> 0]]
    /\ probe = NoProbe
    /\ boot = FirstBoot

\* a member presses the next button of the script while the loops sleep
Pressable == presses < MaxPresses /\ pollLoopRan /\ reminderLoopRan

\* ... on a poll message carrying the view of bot.py
PressWarPollButtons ==
    Pressable /\ WarPollButtons_vote(NextVote[1], NextVote[2], NextVote[3])

\* ... on a poll message carrying the view of cogs/war.py
PressWarPollView ==
    Pressable /\ WarPollView_handle_vote(NextVote[1], NextVote[2], NextVote[3])

\* every storage call and every send succeeds
Next ==
    \/ check_war_poll_schedule(NoFaults)
    \/ check_war_reminders(NoFaults)
    \/ Sleep
    \/ PressWarPollButtons
    \/ PressWarPollView

Spec == Init /\ [][Next]_vars

\* reading the configuration and sending may raise; the members vote on the
\* polls the scheduler posts, which carry the view of bot.py
NextRaising ==
    \/ check_war_poll_schedule(RaisingFaults)
    \/ check_war_reminders(RaisingFaults)
    \/ Sleep
    \/ PressWarPollButtons

SpecRaising == Init /\ [][NextRaising]_vars

\* the ledger and store calls may fail; the members vote on the polls the
\* scheduler posts
NextStorage ==
    \/ check_war_poll_schedule(StorageFaults)
    \/ check_war_reminders(StorageFaults)
    \/ Sleep
    \/ PressWarPollButtons

SpecStorage == Init /\ [][NextStorage]_vars

\* get_current_poll_week() called at two instants of the host clock
ProbeDays == {5, 6, 7, 365, 366}
ProbeMinutes == {0, 12 * HourMinutes, 23 * HourMinutes + 59}
ProbeInstants == {d * DayMinutes + m : d \in ProbeDays, m \in ProbeMinutes}

InitWeek ==
    /\ now = StartInstant
    /\ pollLoopRan = FALSE
    /\ reminderLoopRan = FALSE
    /\ server_settings = InitSettings
    /\ sent_events = {}
    /\ sent_events_seq = 0
    /\ war_participants = {}
    /\ players = (Users \X Guilds) \ {<<"D", 2>>}
    /\ presses = 0
    /\ failures = 0
    /\ delivered = {}
    /\ error_log = {}
    /\ dispatched = [g \in Guilds |-> [k \in EventTypes |-> 0]]
    /\ \E t1 \in ProbeInstants, t2 \in ProbeInstants :
           probe = [NoProbe EXCEPT !.t1 = t1, !.t2 = t2]
    /\ boot = FirstBoot

CallTwice ==
    /\ probe.w1 = NoProbe.w1
    /\ probe' = [probe EXCEPT !.w1 = PollWeekAt(probe.t1), !.w2 = PollWeekAt(probe.t2)]
    /\ UNCHANGED <<now, pollLoopRan, reminderLoopRan, server_settings, sent_events,
                   sent_events_seq, war_participants, players, presses, failures,
                   delivered, error_log, dispatched, boot>>

SpecWeek == InitWeek /\ [][CallTwice]_vars

-----------------------------------------------------------------------------
(* bot.py: the admin commands /resetwar and /resetallwar, the daily task   *)
(* cleanup_old_data and the start of the process (on_ready)                *)

\* number of times the process is stopped and started again in a run
MaxRestarts == 1
\* a stopped process is started again within MaxDowntime minutes
MaxDowntime == 2

\* variant: the Database object has a connection attribute
db_conn_cursor_Exists(db) == Returned(db)

\* "cursor = db.conn.cursor()": the class Database defines get_connection(),
\* connection_pool and db_path but no attribute conn, so the expression
\* raises AttributeError
db_conn_cursor(db) == Raised(db, "conn")

\* the value typed for the confirm parameter
Confirms == {"CONFIRM", "yes"}

\* /resetwar: the body of the command for the guild it is issued in
reset_war_body(db, guild_id, confirm) ==
    IF confirm # "CONFIRM" THEN db
    ELSE LET poll_week == get_current_poll_week
             cleared == clear_war_participants(db, guild_id, poll_week, TRUE)
             cursor == db_conn_cursor(cleared)
         IN  IF cursor.raised THEN Logged(cursor, guild_id)
             ELSE [cleared EXCEPT !.ev = {r \in cleared.ev :
                                             ~(r.guild_id = guild_id
                                               /\ r.event_week = poll_week)}]

reset_war(guild_id, confirm) ==
    /\ SetDb(reset_war_body(Db, guild_id, confirm))
    /\ UNCHANGED <<now, pollLoopRan, reminderLoopRan, server_settings, players,
                   presses, failures, probe, boot>>

\* /resetallwar: the body of the command for the guild it is issued in
reset_all_war_body(db, guild_id, confirm) ==
    IF confirm # "CONFIRM" THEN db
    ELSE LET cursor == db_conn_cursor(db)
         IN  IF cursor.raised THEN Logged(cursor, guild_id)
             ELSE [db EXCEPT !.wp = {r \in db.wp : r.guild_id # guild_id},
                             !.ev = {r \in db.ev : r.guild_id # guild_id}]

reset_all_war(guild_id, confirm) ==
    /\ SetDb(reset_all_war_body(Db, guild_id, confirm))
    /\ UNCHANGED <<now, pollLoopRan, reminderLoopRan, server_settings, players,
                   presses, failures, probe, boot>>

\* Database.clear_old_events(self, guild_id, older_than_date)
clear_old_events_parameters == {"guild_id", "older_than_date"}

clear_old_events(db, guild_id, older_than_date) ==
    [db EXCEPT !.ev = {r \in db.ev : ~(r.guild_id = guild_id
                                       /\ r.sent_at < older_than_date)}]

\* the keyword argument of the call in cleanup_old_data
older_than_weeks == 4

\* cleanup_old_data: "db.clear_old_events(older_than_weeks=4)" inside a try
\* whose except branch logs the error.  The call passes a keyword the method
\* does not have and leaves out both of its parameters, so Python raises
\* TypeError before the method body runs.
cleanup_old_data ==
    /\ ~boot.cleaned
    /\ LET keywords == [older_than_weeks |-> older_than_weeks]
       IN  IF DOMAIN keywords = clear_old_events_parameters
           THEN SetDb(clear_old_events(Db, keywords.guild_id, keywords.older_than_date))
           ELSE SetDb([Db EXCEPT !.errs = {<<0, "clear_old_events">>}])
    /\ boot' = [boot EXCEPT !.cleaned = TRUE]
    /\ UNCHANGED <<now, pollLoopRan, reminderLoopRan, server_settings, players,
                   presses, failures, probe>>

\* the process is stopped and started again d minutes later: on_ready starts
\* check_war_poll_schedule, check_war_reminders and cleanup_old_data, whose
\* first iterations run at once.  The tables are in the database file and
\* outlive the process; the position of the loops does not.
on_ready ==
    /\ boot.starts <= MaxRestarts
    /\ \E d \in 1..MaxDowntime :
           /\ now + d <= EndInstant + MaxPhase
           /\ now' = now + d
    /\ pollLoopRan' = FALSE
    /\ reminderLoopRan' = FALSE
    /\ delivered' = {}
    /\ error_log' = {}
    /\ boot' = [starts |-> boot.starts + 1,
                polled |-> {g \in Guilds : dispatched[g]["war_poll"] > 0},
                cleaned |-> FALSE]
    /\ UNCHANGED <<server_settings, sent_events, sent_events_seq, war_participants,
                   players, presses, failures, dispatched, probe>>

\* a war_poll row written five weeks before the run starts, Saturday
\* 2023-12-02: the ledger of a bot that has been in service
OldRow ==
    [id |-> 1, guild_id |-> 1, event_type |-> "war_poll", event_week |-> <<2023, 48>>,
     event_day |-> None, sent_at |-> StartInstant - 5 * WeekMinutes]

InitOps ==
    /\ now \in {StartInstant + p : p \in 0..MaxPhase}
    /\ pollLoopRan = FALSE
    /\ reminderLoopRan = FALSE
    /\ server_settings = InitSettings
    /\ sent_events = {OldRow}
    /\ sent_events_seq = 1
    /\ war_participants = {}
    /\ players = (Users \X Guilds) \ {<<"D", 2>>}
    /\ presses = 0
    /\ failures = 0
    /\ delivered = {}
    /\ error_log = {}
    /\ dispatched = [g \in Guilds |-> [k \in EventTypes |-> 0]]
    /\ probe = NoProbe
    /\ boot = FirstBoot

\* an administrator issues a command while the loops sleep
IssueResetWar ==
    /\ pollLoopRan /\ reminderLoopRan
    /\ \E g \in Guilds, confirm \in Confirms : reset_war(g, confirm)

IssueResetAllWar ==
    /\ pollLoopRan /\ reminderLoopRan
    /\ \E g \in Guilds, confirm \in Confirms : reset_all_war(g, confirm)

\* the scheduler with its administrators: members vote, administrators
\* reset, the daily cleanup runs
NextAdmin ==
    \/ check_war_poll_schedule(NoFaults)
    \/ check_war_reminders(NoFaults)
    \/ Sleep
    \/ PressWarPollButtons
    \/ IssueResetWar
    \/ IssueResetAllWar
    \/ cleanup_old_data

SpecAdmin == InitOps /\ [][NextAdmin]_vars

\* the scheduler of a process that is stopped and started again
NextRestart ==
    \/ check_war_poll_schedule(NoFaults)
    \/ check_war_reminders(NoFaults)
    \/ Sleep
    \/ PressWarPollButtons
    \/ cleanup_old_data
    \/ on_ready

SpecRestart == InitOps /\ [][NextRestart]_vars

-----------------------------------------------------------------------------
(* bot.py: _discord_call, the helper that runs a Discord API call under    *)
(* the global lock _API_LOCK with a backoff on HTTP 429, and its callers    *)
(* safe_message_edit and safe_send_message.  The variable probe holds the   *)
(* retries argument, the lock and the stack of running _discord_call        *)
(* frames; waits are counted in seconds.                                    *)

\* the retries argument ranges over 0..MaxRetries (2 is its default)
MaxRetries == 2

\* what the Discord API answers to one request: delivered, rate-limited
\* (with or without a retry-after), or another HTTP error
Outcomes ==
    {[status |-> 200, reported |-> FALSE, retry_after |-> 0],
     [status |-> 429, reported |-> FALSE, retry_after |-> 0],
     [status |-> 429, reported |-> TRUE, retry_after |-> 1],
     [status |-> 429, reported |-> TRUE, retry_after |-> 7],
     [status |-> 500, reported |-> FALSE, retry_after |-> 0]}

\* the default wait of _discord_call, seconds
DefaultRetryAfter == 5

_retry_after_from_http_exception(e, default) ==
    IF e.reported THEN e.retry_after ELSE default

\* what coro_factory() does: "api" sends one request (message.edit of
\* safe_message_edit, interaction.followup.send of safe_send_message once the
\* interaction is responded to); "safe_send_message" is _send for an
\* interaction not responded to yet, which awaits safe_send_message again
Coros == {"api", "safe_send_message"}

StillRunning == [raised |-> FALSE, value |-> "running"]
\* the coroutine returned the message the API delivered
ReturnedMessage == [raised |-> FALSE, value |-> "message"]
\* the for loop ended and the function returned without a return statement
ReturnedNone == [raised |-> FALSE, value |-> "None"]
\* "raise": the HTTPException reaches the caller
RaisedHTTPException == [raised |-> TRUE, value |-> "HTTPException"]

NewFrame(coro) ==
    [coro |-> coro, attempt |-> 0, calls |-> 0, seen |-> <<>>, slept |-> <<>>,
     pc |-> "acquire", result |-> StillRunning]

Top == probe.frames[Len(probe.frames)]
SetTop(frame) == [probe.frames EXCEPT ![Len(probe.frames)] = frame]

\* the innermost call is over: "return await coro_factory()" and "raise" hand
\* its result to every frame awaiting it
Complete(frames, result) ==
    [i \in DOMAIN frames |-> [frames[i] EXCEPT !.pc = "done", !.result = result]]

NotProbe ==
    <<now, pollLoopRan, reminderLoopRan, server_settings, sent_events,
      sent_events_seq, war_participants, players, presses, failures, delivered,
      error_log, dispatched, boot>>

\* "async with _API_LOCK": asyncio.Lock has no owner, whoever finds it
\* locked waits until it is released
AcquireLock ==
    /\ Top.pc = "acquire"
    /\ ~probe.lock
    /\ probe' = [probe EXCEPT !.lock = TRUE,
                              !.frames = SetTop([Top EXCEPT !.pc = "call"])]
    /\ UNCHANGED NotProbe

\* "return await coro_factory()" for a coroutine that sends one request; the
\* lock is released on the way out of the with block
InvokeApi ==
    /\ Top.pc = "call"
    /\ Top.coro = "api"
    /\ \E o \in Outcomes :
          LET frame == [Top EXCEPT !.calls = @ + 1, !.seen = Append(@, o)]
          IN  probe' = [probe EXCEPT
                  !.lock = FALSE,
                  !.frames =
                      IF o.status = 200
                      THEN Complete(SetTop(frame), ReturnedMessage)
                      ELSE IF o.status = 429
                      THEN SetTop([frame EXCEPT !.pc = "sleep"])
                      ELSE Complete(SetTop(frame), RaisedHTTPException)]
    /\ UNCHANGED NotProbe

\* "return await coro_factory()" for _send of safe_send_message while
\* interaction.response.is_done() is False: _send awaits safe_send_message,
\* which awaits a second _discord_call; the first keeps the lock meanwhile
InvokeSafeSendMessage ==
    /\ Top.pc = "call"
    /\ Top.coro = "safe_send_message"
    /\ probe' = [probe EXCEPT
           !.frames = Append(SetTop([Top EXCEPT !.calls = @ + 1, !.pc = "await"]),
                             NewFrame("safe_send_message"))]
    /\ UNCHANGED NotProbe

\* "await asyncio.sleep(wait); continue", and the end of the for loop when
\* range(retries + 1) is used up
Backoff ==
    /\ Top.pc = "sleep"
    /\ LET wait == _retry_after_from_http_exception(Top.seen[Len(Top.seen)],
                                                    DefaultRetryAfter)
           frame == [Top EXCEPT !.slept = Append(@, wait), !.attempt = @ + 1]
       IN  probe' = [probe EXCEPT
               !.frames = IF frame.attempt > probe.retries
                          THEN Complete(SetTop(frame), ReturnedNone)
                          ELSE SetTop([frame EXCEPT !.pc = "acquire"])]
    /\ UNCHANGED NotProbe

InitCall ==
    /\ now = StartInstant
    /\ pollLoopRan = FALSE
    /\ reminderLoopRan = FALSE
    /\ server_settings = InitSettings
    /\ sent_events = {}
    /\ sent_events_seq = 0
    /\ war_participants = {}
    /\ players = (Users \X Guilds) \ {<<"D", 2>>}
    /\ presses = 0
    /\ failures = 0
    /\ delivered = {}
    /\ error_log = {}
    /\ dispatched = [g \in Guilds |-> [k \in EventTypes |-> 0]]
    /\ boot = FirstBoot
    /\ \E retries \in 0..MaxRetries, coro \in Coros :
           probe = [retries |-> retries, lock |-> FALSE,
                    frames |-> <<NewFrame(coro)>>]

NextCall ==
    \/ AcquireLock
    \/ InvokeApi
    \/ InvokeSafeSendMessage
    \/ Backoff

\* one call of safe_message_edit or safe_send_message
SpecCall == InitCall /\ [][NextCall]_vars

\* the event loop runs every coroutine that can go on
SpecCallFair == SpecCall /\ WF_vars(NextCall)

-----------------------------------------------------------------------------
(* check_war_poll_schedule over the whole poll weekday of guild 1, for a    *)
(* poll time near midnight or in the middle of the day and for every phase  *)
(* of the 5-minute loop                                                     *)

\* poll times within MaxEdge minutes of either end of the day are tried
MaxEdge == 2

\* Saturday 2024-01-06 00:00 UTC and Sunday 00:00 UTC
PollDayStart == 5 * DayMinutes
PollDayEnd == 6 * DayMinutes

\* minutes of the day a poll time is configured at
PollTimes ==
    (0..MaxEdge) \cup ((DayMinutes - 1 - MaxEdge)..(DayMinutes - 1))
        \cup {12 * HourMinutes + 2, 17 * HourMinutes + 30}

InitWindow ==
    /\ \E phase \in 0..(TickMinutes - 1) : now = PollDayStart + phase
    /\ pollLoopRan = FALSE
    /\ reminderLoopRan = FALSE
    /\ \E t \in PollTimes :
           server_settings =
               [InitSettings EXCEPT ![1].poll_time_hour = t \div HourMinutes,
                                    ![1].poll_time_minute = t % HourMinutes]
    /\ sent_events = {}
    /\ sent_events_seq = 0
    /\ war_participants = {}
    /\ players = (Users \X Guilds) \ {<<"D", 2>>}
    /\ presses = 0
    /\ failures = 0
    /\ delivered = {}
    /\ error_log = {}
    /\ dispatched = [g \in Guilds |-> [k \in EventTypes |-> 0]]
    /\ probe = NoProbe
    /\ boot = FirstBoot

\* check_war_poll_schedule sleeps until its next iteration, 5 minutes later,
\* as long as that is on the poll day
SleepPollTask ==
    /\ pollLoopRan
    /\ now + TickMinutes < PollDayEnd
    /\ now' = now + TickMinutes
    /\ pollLoopRan' = FALSE
    /\ delivered' = {}
    /\ error_log' = {}
    /\ UNCHANGED <<reminderLoopRan, server_settings, sent_events, sent_events_seq,
                   war_participants, players, presses, failures, dispatched, probe,
                   boot>>

NextWindow ==
    \/ check_war_poll_schedule(NoFaults)
    \/ SleepPollTask

SpecWindow == InitWindow /\ [][NextWindow]_vars

\* the loop keeps running: every iteration and every sleep comes to its end
SpecWindowFair == SpecWindow /\ WF_vars(NextWindow)

-----------------------------------------------------------------------------
(* The properties *)

\* the ledger rows of one guild and event type
LedgerRows(guild_id, event_type) ==
    {r \in sent_events : r.guild_id = guild_id /\ r.event_type = event_type}

\* the messages of one kind the last step delivered to one guild
Delivered(guild_id, kind) ==
    {m \in delivered : m.guild_id = guild_id /\ m.kind = kind}

\* C1: over the ticks around a guild's poll time, with every send and every
\* ledger write succeeding, the poll is dispatched at most once and at most
\* one war_poll row is written for the guild, however many ticks fall inside
\* the tolerance window.
C1_PollDispatchedOnce ==
    \A g \in Guilds :
        /\ dispatched[g]["war_poll"] <= 1
        /\ Cardinality(LedgerRows(g, "war_poll")) <= 1

\* C2: for every guild, the Saturday reminder and the Sunday reminder of the
\* week are each dispatched at most once: a second tick inside the tolerance
\* window after a successful send and mark sends nothing.
C2_ReminderDispatchedOnce ==
    \A g \in Guilds :
        /\ dispatched[g]["saturday_reminder"] <= 1
        /\ dispatched[g]["sunday_reminder"] <= 1

\* C3: whatever calls of mark_event_sent were made, sent_events holds at most
\* one row per (guild, event type, week): a call for a marked key adds no row.
C3_OneRowPerKey ==
    \A r1 \in sent_events, r2 \in sent_events :
        (/\ r1.guild_id = r2.guild_id
         /\ r1.event_type = r2.event_type
         /\ r1.event_week = r2.event_week) => r1 = r2

\* the votes stored for a guild under one week token: <<user, option>>
VotesUnder(guild_id, poll_week) ==
    {<<r.user_id, r.participation_type>> :
        r \in {x \in war_participants : x.guild_id = guild_id
                                         /\ x.poll_week = poll_week}}

\* A and B voted Saturday, C voted Both, D voted Sunday
VotesABCD ==
    {<<"A", "saturday">>, <<"B", "saturday">>, <<"C", "both">>, <<"D", "sunday">>}

\* the guild's reminder for the day is due at the current instant
ReminderDue(guild_id, weekday, war) ==
    LET config == get_war_config(guild_id)
        local == LocalTime(now, config.timezone)
    IN  /\ Weekday(local) = weekday
        /\ Abs((Hour(local) * HourMinutes + Minute(local))
               - ((config[war].hour * HourMinutes + config[war].minute)
                  - config.reminder_hours * HourMinutes)) < Tolerance

\* the mention sets of the guild's messages of one kind in the last step
Mentions(guild_id, kind) == {m.mentions : m \in Delivered(guild_id, kind)}

\* C4: when A and B voted Saturday, C Both and D Sunday under the token of
\* the week's poll and nobody voted since, a run of the reminder task at
\* which the Saturday reminder is due mentions exactly {A, B, C} and one at
\* which the Sunday reminder is due mentions exactly {C, D}.
C4_ReminderMentions ==
    [][\A g \in Guilds : \A r \in LedgerRows(g, "war_poll") :
          (/\ ~reminderLoopRan /\ reminderLoopRan'
           /\ VotesUnder(g, r.event_week) = VotesABCD
           /\ \A x \in war_participants : x.guild_id = g => x.poll_week = r.event_week)
          => /\ ReminderDue(g, 5, "saturday_war")
                  => Mentions(g, "saturday_reminder")' = {{"A", "B", "C"}}
             /\ ReminderDue(g, 6, "sunday_war")
                  => Mentions(g, "sunday_reminder")' = {{"C", "D"}}]_vars

\* the Monday-to-Sunday calendar week of an instant of the host clock
HostCalendarWeek(t) == CalendarWeek(t, HostZone)

\* C5: get_current_poll_week gives two instants the same token exactly when
\* they lie in the same Monday-to-Sunday calendar week.
C5_TokenIffSameWeek ==
    probe.w1 # NoProbe.w1 =>
        ((probe.w1 = probe.w2) <=> (HostCalendarWeek(probe.t1) = HostCalendarWeek(probe.t2)))

\* C6: the week token under which the scheduler dispatches for a guild is the
\* token of the current date in the guild's configured timezone.
C6_GuildLocalToken ==
    \A m \in delivered :
        m.poll_week = StrftimeYWU(LocalTime(now, get_war_config(m.guild_id).timezone))

ErrorGuilds == {e[1] : e \in error_log}

\* the guild's poll is due at the current instant
PollDue(guild_id) ==
    LET config == get_war_config(guild_id)
        local == LocalTime(now, config.timezone)
    IN  /\ config.poll_day = StrftimeA(local)
        /\ Abs((config.poll_time.hour * HourMinutes + config.poll_time.minute)
               - (Hour(local) * HourMinutes + Minute(local))) < Tolerance

\* the ledger holds the key under the current week token
Marked(guild_id, event_type) ==
    \E r \in LedgerRows(guild_id, event_type) : r.event_week = get_current_poll_week

\* the members the guild's reminder of the day would mention
ReminderPlayers(guild_id, day_players) ==
    get_war_participants(Db, guild_id)[day_players]
        \cup get_war_participants(Db, guild_id).both_days_players

\* the guild's event is due and has something to send
Due(guild_id, event_type) ==
    CASE event_type = "war_poll" -> PollDue(guild_id)
      [] event_type = "saturday_reminder" ->
            /\ ReminderDue(guild_id, 5, "saturday_war")
            /\ ReminderPlayers(guild_id, "saturday_players") # {}
      [] event_type = "sunday_reminder" ->
            /\ ReminderDue(guild_id, 6, "sunday_war")
            /\ ReminderPlayers(guild_id, "sunday_players") # {}

\* the step is a run of the task that dispatches the event type
TaskRuns(event_type) ==
    IF event_type = "war_poll"
    THEN ~pollLoopRan /\ pollLoopRan'
    ELSE ~reminderLoopRan /\ reminderLoopRan'

\* C8: in a run of a task in which the iteration of a guild X raised, every
\* other guild Y whose iteration did not raise and whose event is due and
\* unmarked is dispatched and marked.
C8_GuildIsolation ==
    [][\A x \in Guilds, y \in Guilds, k \in EventTypes :
          (/\ TaskRuns(k)
           /\ x \in ErrorGuilds' /\ y \notin ErrorGuilds'
           /\ Due(y, k) /\ ~Marked(y, k))
          => (Delivered(y, k)' # {} /\ Marked(y, k)')]_vars

\* the iteration of guild 1 raised and the poll of guild 2 was dispatched
C8_Witness ==
    /\ 1 \in ErrorGuilds
    /\ 2 \notin ErrorGuilds
    /\ Delivered(2, "war_poll") # {}
    /\ Marked(2, "war_poll")

\* C9: a run of a task changes the ledger rows of a guild's event only when
\* it delivered that event to the guild in the same run, so a failed send
\* leaves the key unmarked; and a run at which the event is due and
\* unmarked attempts the dispatch: it delivers or logs the guild's error.
C9_MarkOnlyAfterSend ==
    [][\A g \in Guilds, k \in EventTypes :
          /\ LedgerRows(g, k)' # LedgerRows(g, k) => Delivered(g, k)' # {}
          /\ (TaskRuns(k) /\ Due(g, k) /\ ~Marked(g, k))
                => (Delivered(g, k)' # {} \/ g \in ErrorGuilds')]_vars

\* the send of guild 1's poll failed at the first of the two ticks of the
\* window and the key is unmarked
C9_Witness ==
    /\ <<1, "send">> \in error_log
    /\ pollLoopRan
    /\ PollDue(1)
    /\ now = StartInstant + 1
    /\ ~Marked(1, "war_poll")

\* the option a vote is stored under
StoredAs(choice) == {choice} \cup (IF choice = "none" THEN {"not_playing"} ELSE {})

\* the records of the member who presses next, under the current week token
VoterRecords ==
    {x \in war_participants : /\ x.guild_id = NextVote[1]
                              /\ x.user_id = NextVote[2]
                              /\ x.poll_week = get_current_poll_week}

\* C10: the store holds at most one record per (guild, week, user), and
\* after a member who has a record of the week pressed a button, the member's
\* only record of the week is the option pressed, whoever else voted before.
C10_VoteOverwrites ==
    [][/\ \A r1 \in war_participants', r2 \in war_participants' :
             (/\ r1.guild_id = r2.guild_id /\ r1.poll_week = r2.poll_week
              /\ r1.user_id = r2.user_id) => r1 = r2
       /\ (presses' = presses + 1 /\ VoterRecords # {}) =>
             \E x \in war_participants' :
                 /\ x.participation_type \in StoredAs(NextVote[3])
                 /\ {y \in war_participants' : /\ y.guild_id = NextVote[1]
                                                /\ y.user_id = NextVote[2]
                                                /\ y.poll_week = get_current_poll_week}
                    = {x}]_vars

\* the poll of the guild-local calendar week was dispatched and marked
PolledThisWeek(guild_id) ==
    \E r \in LedgerRows(guild_id, "war_poll") :
        CalendarWeek(r.sent_at, get_war_config(guild_id).timezone)
            = CalendarWeek(now, get_war_config(guild_id).timezone)

\* C11: when a guild's poll of the week had been dispatched and marked
\* before the process was stopped, no run of the poll task of the restarted
\* process, whatever the phase of its ticks, dispatches a poll to that guild
\* in that week.
C11_RestartSafe ==
    [][\A g \in boot.polled :
          (TaskRuns("war_poll") /\ PolledThisWeek(g))
          => Delivered(g, "war_poll")' = {}]_vars

\* the ledger key of a row
LedgerKey(r) == <<r.guild_id, r.event_type, r.event_week, r.event_day>>

ResetWarHandled(guild_id, confirm) ==
    /\ pollLoopRan /\ reminderLoopRan
    /\ reset_war(guild_id, confirm)

\* C13: after /resetwar with confirm CONFIRM was handled for a guild, the
\* store holds no participation record and the ledger no entry of that guild
\* under the current week token, and the records and entries of every other
\* guild and every other week are as before.
C13_ResetWarClears ==
    [][\A g \in Guilds :
          ResetWarHandled(g, "CONFIRM") =>
              /\ \A x \in war_participants' :
                     ~(x.guild_id = g /\ x.poll_week = get_current_poll_week)
              /\ \A r \in sent_events' :
                     ~(r.guild_id = g /\ r.event_week = get_current_poll_week)
              /\ {x \in war_participants' : x.guild_id # g
                                             \/ x.poll_week # get_current_poll_week}
                 = {x \in war_participants : x.guild_id # g
                                              \/ x.poll_week # get_current_poll_week}
              /\ {r \in sent_events' : r.guild_id # g
                                        \/ r.event_week # get_current_poll_week}
                 = {r \in sent_events : r.guild_id # g
                                         \/ r.event_week # get_current_poll_week}]_vars

\* the step is a run of the daily cleanup sweep
SweepRuns == ~boot.cleaned /\ boot.cleaned'

\* C14: every run of the daily cleanup sweep deletes the ledger rows sent
\* more than four weeks before the run and no other row.
C14_SweepPurgesOld ==
    [][SweepRuns =>
          sent_events' = {r \in sent_events :
                             ~(r.sent_at < now - older_than_weeks * WeekMinutes)}]_vars

\* C15: in a run of a task in which was_event_sent failed with a storage
\* error for a guild's event, nothing is dispatched to the guild for that
\* event; the key is evaluated again at the next tick.
C15_CheckErrorSendsNothing ==
    [][\A g \in Guilds, k \in EventTypes :
          (TaskRuns(k) /\ <<g, "was_sent">> \in error_log')
          => Delivered(g, k)' = {}]_vars

\* the guild's war channel is set and exists in the guild
ChannelResolves(guild_id) ==
    get_war_config(guild_id).war_channel_id \in GuildChannels[guild_id]

\* the guild's reminder of the event type is due at the current instant
ReminderTypeDue(guild_id, event_type) ==
    IF event_type = "saturday_reminder"
    THEN ReminderDue(guild_id, 5, "saturday_war")
    ELSE ReminderDue(guild_id, 6, "sunday_war")

\* C16: a run of the reminder task at which a guild's reminder is due, its
\* key unmarked and its channel resolvable delivers the reminder and marks
\* the key, whether or not any member chose that day or Both.
C16_ReminderWithoutVoters ==
    [][\A g \in Guilds, k \in {"saturday_reminder", "sunday_reminder"} :
          (/\ TaskRuns(k)
           /\ ReminderTypeDue(g, k)
           /\ ~Marked(g, k)
           /\ ChannelResolves(g))
          => (Delivered(g, k)' # {} /\ Marked(g, k)')]_vars

\* the frames of the running _discord_call invocations
Frames == {probe.frames[i] : i \in DOMAIN probe.frames}

\* the i-th invocation has returned or raised, or awaits an attempt that is
\* still running
Settled(i) ==
    /\ Len(probe.frames) >= i
    /\ probe.frames[i].pc \in {"done", "await"}

\* C17: every invocation of _discord_call calls coro_factory at most
\* retries + 1 times; it calls it again only after an HTTP 429 and after
\* having slept the retry-after the 429 reported (5 s when it reported
\* none); and every invocation none of whose attempts is still running
\* comes to an end.
C17_BoundedRetry ==
    /\ [](\A f \in Frames :
             /\ f.calls <= probe.retries + 1
             /\ \A i \in 1..(f.calls - 1) :
                    /\ f.seen[i].status = 429
                    /\ Len(f.slept) >= i
                    /\ f.slept[i] = IF f.seen[i].reported
                                    THEN f.seen[i].retry_after
                                    ELSE DefaultRetryAfter)
    /\ \A i \in 1..2 :
           [](Len(probe.frames) >= i => <>Settled(i))

\* every attempt of the invocation was rate-limited and none is left
Exhausted(f) ==
    /\ f.calls = probe.retries + 1
    /\ \A i \in 1..f.calls : f.seen[i].status = 429

\* the last attempt of the invocation met an error other than a 429
OtherError(f) ==
    /\ f.calls >= 1
    /\ f.seen[f.calls].status \notin {200, 429}

\* C18: an invocation of _discord_call that has come to an end after every
\* attempt was rate-limited hands its caller a failure, not a return as
\* after a delivery; one whose attempt met another error raised it after
\* that attempt, without sleeping or calling again.
C18_GivesUpWithFailure ==
    \A f \in Frames :
        f.pc = "done" =>
            /\ Exhausted(f) => f.result.raised
            /\ OtherError(f) => /\ f.result = RaisedHTTPException
                                /\ Len(f.slept) = f.calls - 1

\* C19: a run of the poll task in which a guild's send raised has cleared
\* the guild's votes of the week (the clear was issued before the send) and
\* left the guild's war_poll rows as they were (the mark comes after the
\* send); a run that delivered the poll has cleared the votes and marked the
\* key.
C19_ClearSendMarkOrder ==
    [][\A g \in Guilds :
          TaskRuns("war_poll") =>
              /\ <<g, "send">> \in error_log'
                    => /\ VotesUnder(g, get_current_poll_week)' = {}
                       /\ LedgerRows(g, "war_poll")' = LedgerRows(g, "war_poll")
                       /\ Delivered(g, "war_poll")' = {}
              /\ Delivered(g, "war_poll")' # {}
                    => /\ VotesUnder(g, get_current_poll_week)' = {}
                       /\ Marked(g, "war_poll")']_vars

\* the send of guild 1's poll has just failed, after a member of guild 1 had
\* voted under the token of the week: the votes are gone, the key is unmarked
C19_Witness ==
    /\ <<1, "send">> \in error_log
    /\ pollLoopRan
    /\ presses >= 1
    /\ VotesUnder(1, get_current_poll_week) = {}
    /\ ~Marked(1, "war_poll")

\* the time test of check_war_poll_schedule passes for guild 1
InPollWindow ==
    Abs((get_war_config(1).poll_time.hour * HourMinutes
         + get_war_config(1).poll_time.minute)
        - (Hour(LocalTime(now, get_war_config(1).timezone)) * HourMinutes
           + Minute(LocalTime(now, get_war_config(1).timezone)))) < 5

PollDueAt(guild_id, t) ==
    LET config == get_war_config(guild_id)
        local == LocalTime(t, config.timezone)
    IN  /\ config.poll_day = StrftimeA(local)
        /\ Abs((config.poll_time.hour * HourMinutes + config.poll_time.minute)
               - (Hour(local) * HourMinutes + Minute(local))) < 5

\* the instants at which the loops have run so far
TicksSoFar ==
    {t \in {now - k * TickMinutes : k \in 0..(MaxTicks + 1)} : t >= StartInstant}

\* the number of those that fell inside the guild's window
TicksInWindow(guild_id) == Cardinality({t \in TicksSoFar : PollDueAt(guild_id, t)})

\* C21: whichever ledger or store call fails, a run of the poll task
\* dispatches a guild's poll only at a tick inside the guild's window, the
\* number of polls a guild got never exceeds the number of ticks that fell
\* inside its window, which is at most 2, and a run at a tick inside the
\* window whose key is unmarked (the mark of the earlier tick failed)
\* dispatches the poll again.
C21_DuplicatesBoundedByWindow ==
    [][\A g \in Guilds :
          /\ (TaskRuns("war_poll") /\ Delivered(g, "war_poll")' # {}) => PollDue(g)
          /\ (TaskRuns("war_poll") /\ PollDue(g) /\ ~Marked(g, "war_poll"))
                => Delivered(g, "war_poll")' # {}
          /\ LET n == TicksInWindow(g)
             IN  dispatched'[g]["war_poll"] <= n /\ n <= 2]_vars

\* guild 1 got its poll at both ticks of the window although the ledger has
\* one row: the mark of the first tick had failed
C21_Witness ==
    /\ dispatched[1]["war_poll"] = 2
    /\ Cardinality(LedgerRows(1, "war_poll")) = 1
    /\ failures = 1

\* the records of everybody but the member who presses next
OthersRecords ==
    {x \in war_participants : ~(x.guild_id = NextVote[1] /\ x.user_id = NextVote[2])}

\* C22: when a member with a profile presses a button, the vote is recorded
\* under the week token, whatever votes of other members the store already
\* holds, and the records of the other members stay as they are.
C22_VotesIndependent ==
    [][(presses' = presses + 1 /\ get_player(NextVote[2], NextVote[1])) =>
          /\ \E x \in war_participants' :
                 /\ x.guild_id = NextVote[1]
                 /\ x.user_id = NextVote[2]
                 /\ x.poll_week = get_current_poll_week
                 /\ x.participation_type \in StoredAs(NextVote[3])
          /\ {x \in war_participants' :
                 ~(x.guild_id = NextVote[1] /\ x.user_id = NextVote[2])}
             = OthersRecords]_vars

-----------------------------------------------------------------------------
(* The admin configuration commands: /setwar of bot.py, /setwar and        *)
(* /setpollschedule of cogs/war.py.  A command value is the text the admin *)
(* typed, kept as the fields the handler's parsing sees: a field is the    *)
(* integer int() makes of it, or not a number.  A handler is an operator   *)
(* from the settings table to [settings, reply].                           *)

Num(k) == [numeric |-> TRUE, n |-> k]
NotNum == [numeric |-> FALSE, n |-> 0]

\* database.py: the whitelist of columns
ALLOWED_SETTINGS ==
    {"language", "war_channel_id", "poll_day", "poll_time_hour", "poll_time_minute",
     "saturday_war_hour", "saturday_war_minute", "sunday_war_hour",
     "sunday_war_minute", "reminder_hours_before", "timezone"}

\* Database.update_server_setting; ok = FALSE is its except branch
update_server_setting(settings, guild_id, setting, value, ok) ==
    IF setting \notin ALLOWED_SETTINGS \/ ~ok
    THEN settings
    ELSE [settings EXCEPT ![guild_id][setting] = value]

Reply(settings, reply) == [settings |-> settings, reply |-> reply]

\* the values tried for a time setting, as value.split(":") yields them:
\* "00:00", "23:59", "24:00", "07:60", "-1:30", "7", "1:2:3", "x:00"
TimeValues ==
    {<<Num(0), Num(0)>>, <<Num(23), Num(59)>>, <<Num(24), Num(0)>>,
     <<Num(7), Num(60)>>, <<Num(0 - 1), Num(30)>>, <<Num(7)>>,
     <<Num(1), Num(2), Num(3)>>, <<NotNum, Num(0)>>}

\* the values tried for a setting that is one number: "0", "23", "24", "48",
\* "59", "60", "-1", "x"
NumberValues == {Num(0), Num(23), Num(24), Num(48), Num(59), Num(60), Num(0 - 1), NotNum}

\* the values tried for the poll day
DayValues == {"monday", "SUNDAY", "Friday", "funday", "6"}

\* str.title()
Title(value) ==
    CASE value = "monday" -> "Monday"
      [] value = "SUNDAY" -> "Sunday"
      [] value = "Friday" -> "Friday"
      [] value = "funday" -> "Funday"
      [] value = "6" -> "6"

\* the values tried for the channel: a mention "<#id>" or the bare text
ChannelValues ==
    {[mention |-> TRUE, id |-> Num(11)], [mention |-> FALSE, id |-> Num(22)],
     [mention |-> TRUE, id |-> NotNum], [mention |-> FALSE, id |-> NotNum]}

\* pytz.timezone(value) knows the zone
KnownZones == {"UTC", "Africa/Cairo"}
ZoneValues == KnownZones \cup {"Mars/Phobos"}

\* the setting choices of /setwar in bot.py and the values tried for each
SetwarChoices ==
    {"poll_day", "poll_time", "saturday_time", "sunday_time", "reminder_hours",
     "war_channel", "timezone"}

SetwarValues(setting) ==
    CASE setting \in {"poll_time", "saturday_time", "sunday_time"} -> TimeValues
      [] setting = "reminder_hours" -> NumberValues
      [] setting = "poll_day" -> DayValues
      [] setting = "war_channel" -> ChannelValues
      [] setting = "timezone" -> ZoneValues

\* the columns a time setting of bot.py's /setwar maps to
TimeColumns(setting) ==
    CASE setting = "poll_time" -> <<"poll_time_hour", "poll_time_minute">>
      [] setting = "saturday_time" -> <<"saturday_war_hour", "saturday_war_minute">>
      [] setting = "sunday_time" -> <<"sunday_war_hour", "sunday_war_minute">>

\* variant: hour 24 passes the test
OutOfRange_Loose(hour, minute) == hour < 0 \/ hour > 24 \/ minute < 0 \/ minute > 59

\* "if hour < 0 or hour > 23 or minute < 0 or minute > 59:"
OutOfRange(hour, minute) == hour < 0 \/ hour > 23 \/ minute < 0 \/ minute > 59

\* bot.py: setwar; failing is the column whose write fails ("none": none does)
setwar_body(settings, guild_id, setting, value, failing) ==
    LET write(s, column, v) ==
            update_server_setting(s, guild_id, column, v, column # failing)
    IN  CASE setting = "war_channel" ->
               IF ~value.id.numeric \/ value.id.n \notin GuildChannels[guild_id]
               THEN Reply(settings, "rejected")
               ELSE Reply(write(settings, "war_channel_id", value.id.n), "updated")
          [] setting \in {"poll_time", "saturday_time", "sunday_time"} ->
               IF \/ Len(value) # 2
                  \/ \E i \in 1..Len(value) : ~value[i].numeric
                  \/ OutOfRange(value[1].n, value[2].n)
               THEN Reply(settings, "rejected")
               ELSE Reply(write(write(settings, TimeColumns(setting)[1], value[1].n),
                                TimeColumns(setting)[2], value[2].n), "updated")
          [] setting = "reminder_hours" ->
               IF ~value.numeric \/ value.n < 0 \/ value.n > 24
               THEN Reply(settings, "rejected")
               ELSE Reply(write(settings, "reminder_hours_before", value.n), "updated")
          [] setting = "poll_day" ->
               IF Title(value) \notin {DayNames[i] : i \in 1..7}
               THEN Reply(settings, "rejected")
               ELSE Reply(write(settings, setting, Title(value)), "updated")
          [] setting = "timezone" ->
               IF value \notin KnownZones
               THEN Reply(settings, "rejected")
               ELSE Reply(write(settings, "timezone", value), "updated")

\* the setting choices of /setwar in cogs/war.py and the values tried for each
WarCogChoices ==
    {"war_channel_id", "saturday_war_hour", "saturday_war_minute",
     "sunday_war_hour", "sunday_war_minute", "reminder_hours_before", "timezone"}

WarCogValues(setting_key) ==
    CASE setting_key = "war_channel_id" -> ChannelValues
      [] setting_key = "timezone" -> ZoneValues
      [] OTHER -> NumberValues

\* cogs/war.py: WarCog.setwar ("raised": int() of a mention that holds no
\* number is not caught)
WarCog_setwar_body(settings, guild_id, setting_key, value, failing) ==
    LET write(s, column, v) ==
            update_server_setting(s, guild_id, column, v, column # failing)
    IN  CASE setting_key = "war_channel_id" ->
               IF ~value.id.numeric
               THEN Reply(settings, IF value.mention THEN "raised" ELSE "rejected")
               ELSE IF value.id.n \notin GuildChannels[guild_id]
               THEN Reply(settings, "rejected")
               ELSE Reply(write(settings, setting_key, value.id.n), "updated")
          [] setting_key \in {"saturday_war_hour", "sunday_war_hour"} ->
               IF ~value.numeric \/ value.n < 0 \/ value.n > 23
               THEN Reply(settings, "rejected")
               ELSE Reply(write(settings, setting_key, value.n), "updated")
          [] setting_key \in {"saturday_war_minute", "sunday_war_minute"} ->
               IF ~value.numeric \/ value.n < 0 \/ value.n > 59
               THEN Reply(settings, "rejected")
               ELSE Reply(write(settings, setting_key, value.n), "updated")
          [] setting_key = "reminder_hours_before" ->
               IF ~value.numeric \/ value.n < 0 \/ value.n > 48
               THEN Reply(settings, "rejected")
               ELSE Reply(write(settings, setting_key, value.n), "updated")
          [] setting_key = "timezone" ->
               IF value \notin KnownZones
               THEN Reply(settings, "rejected")
               ELSE Reply(write(settings, setting_key, value), "updated")

\* an optional argument of /setpollschedule that was not given
NotGiven == [given |-> FALSE, n |-> 0]
Given(k) == [given |-> TRUE, n |-> k]

\* the arguments tried: the day choice ("" when not given), hour and minute
PollScheduleDays == {"", "Monday", "Sunday"}
PollScheduleHours == {NotGiven, Given(0), Given(23), Given(24), Given(0 - 1)}
PollScheduleMinutes == {NotGiven, Given(59), Given(60), Given(0 - 1)}

\* cogs/war.py: WarCog.setpollschedule
setpollschedule_body(settings, guild_id, day, hour, minute, failing) ==
    LET write(s, column, given, v) ==
            IF given
            THEN update_server_setting(s, guild_id, column, v, column # failing)
            ELSE s
    IN  IF day = "" /\ ~hour.given /\ ~minute.given
        THEN Reply(settings, "shown")
        ELSE IF hour.given /\ ~(0 <= hour.n /\ hour.n <= 23)
        THEN Reply(settings, "rejected")
        ELSE IF minute.given /\ ~(0 <= minute.n /\ minute.n <= 59)
        THEN Reply(settings, "rejected")
        ELSE Reply(write(write(write(settings, "poll_day", day # "", day),
                               "poll_time_hour", hour.given, hour.n),
                         "poll_time_minute", minute.given, minute.n), "updated")

\* at most MaxCommands commands are issued
MaxCommands == 2

\* the column whose write fails while a command runs
ConfigFaults == {"none", "poll_time_minute"}

\* no command was issued yet
NoCommand == [commands |-> 0, reply |-> "none"]

\* the handler's writes reach the table and the admin gets the reply
Answer(result) ==
    /\ probe.commands < MaxCommands
    /\ server_settings' = result.settings
    /\ probe' = [commands |-> probe.commands + 1, reply |-> result.reply]
    /\ UNCHANGED <<now, pollLoopRan, reminderLoopRan, sent_events, sent_events_seq,
                   war_participants, players, presses, failures, delivered,
                   error_log, dispatched, boot>>

setwar ==
    \E guild_id \in Guilds, setting \in SetwarChoices, failing \in ConfigFaults :
        \E value \in SetwarValues(setting) :
            Answer(setwar_body(server_settings, guild_id, setting, value, failing))

WarCog_setwar ==
    \E guild_id \in Guilds, setting_key \in WarCogChoices, failing \in ConfigFaults :
        \E value \in WarCogValues(setting_key) :
            Answer(WarCog_setwar_body(server_settings, guild_id, setting_key, value,
                                      failing))

setpollschedule ==
    \E guild_id \in Guilds, day \in PollScheduleDays, hour \in PollScheduleHours,
       minute \in PollScheduleMinutes, failing \in ConfigFaults :
        Answer(setpollschedule_body(server_settings, guild_id, day, hour, minute,
                                    failing))

InitConfig ==
    /\ now = StartInstant
    /\ pollLoopRan = FALSE
    /\ reminderLoopRan = FALSE
    /\ server_settings = InitSettings
    /\ sent_events = {}
    /\ sent_events_seq = 0
    /\ war_participants = {}
    /\ players = (Users \X Guilds) \ {<<"D", 2>>}
    /\ presses = 0
    /\ failures = 0
    /\ delivered = {}
    /\ error_log = {}
    /\ dispatched = [g \in Guilds |-> [k \in EventTypes |-> 0]]
    /\ probe = NoCommand
    /\ boot = FirstBoot

NextConfig ==
    \/ setwar
    \/ WarCog_setwar
    \/ setpollschedule

SpecConfig == InitConfig /\ [][NextConfig]_vars

\* the stored schedule of a guild is valid
ValidSchedule(guild_id) ==
    LET s == server_settings[guild_id]
    IN  /\ s.poll_day \in {DayNames[i] : i \in 1..7}
        /\ \A h \in {s.poll_time_hour, s.saturday_war_hour, s.sunday_war_hour} :
               h \in 0..23
        /\ \A m \in {s.poll_time_minute, s.saturday_war_minute, s.sunday_war_minute} :
               m \in 0..59

\* a time of day typed as HH:MM is well-formed and in range
GoodTime(value) ==
    /\ Len(value) = 2
    /\ \A i \in 1..2 : value[i].numeric
    /\ value[1].n \in 0..23
    /\ value[2].n \in 0..59

\* C23: after any sequence of /setwar and /setpollschedule commands, accepted
\* or rejected, every guild's stored hours are in 0..23, its minutes in 0..59
\* and its poll day is a weekday name; a command whose time, hour, minute or
\* day is malformed or out of range leaves the stored configuration unchanged,
\* in whatever state it is issued.
C23_ScheduleStaysValid ==
    /\ \A g \in Guilds : ValidSchedule(g)
    /\ \A g \in Guilds, f \in ConfigFaults :
          /\ \A setting \in {"poll_time", "saturday_time", "sunday_time"} :
                \A value \in {v \in TimeValues : ~GoodTime(v)} :
                   setwar_body(server_settings, g, setting, value, f).settings
                      = server_settings
          /\ \A value \in {v \in DayValues : Title(v) \notin {DayNames[i] : i \in 1..7}} :
                setwar_body(server_settings, g, "poll_day", value, f).settings
                   = server_settings
          /\ \A key \in {"saturday_war_hour", "sunday_war_hour"} :
                \A value \in {v \in NumberValues : ~(v.numeric /\ v.n \in 0..23)} :
                   WarCog_setwar_body(server_settings, g, key, value, f).settings
                      = server_settings
          /\ \A key \in {"saturday_war_minute", "sunday_war_minute"} :
                \A value \in {v \in NumberValues : ~(v.numeric /\ v.n \in 0..59)} :
                   WarCog_setwar_body(server_settings, g, key, value, f).settings
                      = server_settings
          /\ \A day \in PollScheduleDays, hour \in PollScheduleHours,
                minute \in PollScheduleMinutes :
                (\/ hour.given /\ hour.n \notin 0..23
                 \/ minute.given /\ minute.n \notin 0..59)
                   => setpollschedule_body(server_settings, g, day, hour, minute,
                                           f).settings = server_settings

\* guild 1's poll time was set to 23:59 and a later command was rejected
C23_Witness ==
    /\ probe.commands = 2
    /\ probe.reply = "rejected"
    /\ server_settings[1].poll_time_hour = 23
    /\ server_settings[1].poll_time_minute = 59

\* C24: a call that goes through _discord_call, the _send of safe_send_message
\* for an interaction not responded to yet included, eventually comes to an
\* end with the global lock free, so that a later call can acquire it.
C24_SendMessageReturns ==
    <>[](probe.frames[1].pc = "done" /\ ~probe.lock)

-----------------------------------------------------------------------------
(* bot.py: safe_send_modal, called by ProfileSetupButton.setup_button and  *)
(* /setupprofile with an interaction nobody has responded to.  A handler   *)
(* runs without interruption up to the next await that suspends it; taking *)
(* a free asyncio.Lock does not suspend.  probe holds the loop clock, the  *)
(* _MODAL_COOLDOWN dict, the holder of _API_LOCK and the interactions.     *)

\* cooldown_seconds
cooldown_seconds == 3
\* seconds of loop.time() the model follows
MaxClock == 7
\* clicks on the button and uses of the command
MaxClicks == 3

\* (guild_id, user.id)
Pairs == {<<1, "A">>, <<1, "B">>}

\* holders of _API_LOCK: nobody, the message.edit of another handler's
\* safe_message_edit, or the interaction of that index
Free == 0
Editing == 0 - 1

\* the interaction waits on "async with _API_LOCK" of the _discord_call of
\* safe_send_modal or of the wait notice, or, "nested", on that of the
\* safe_send_message awaited from inside _send, which runs under the lock
WaitingPcs == {"wait_modal", "wait_notice"}

NewInteraction(pair, accepted, pc) ==
    [pair |-> pair, accepted |-> accepted, pc |-> pc, opened |-> FALSE,
     noticed |-> FALSE]

\* _MODAL_COOLDOWN.get(key, 0.0) and the test "now - last < cooldown_seconds"
InCooldown(pair) == probe.clock - probe.last[pair] < cooldown_seconds

\* safe_send_modal, from its first line to the first await that suspends
Click(pair) ==
    /\ Len(probe.inter) < MaxClicks
    /\ LET i == Len(probe.inter) + 1
           accepted == ~InCooldown(pair)
           pc == IF probe.lock = Free THEN "nested"
                 ELSE IF accepted THEN "wait_modal" ELSE "wait_notice"
       IN  probe' = [probe EXCEPT
               !.last = IF accepted THEN [@ EXCEPT ![pair] = probe.clock] ELSE @,
               !.lock = IF probe.lock = Free THEN i ELSE @,
               !.inter = Append(@, NewInteraction(pair, accepted, pc))]
    /\ UNCHANGED NotProbe

\* the lock got free: _discord_call takes it and awaits _send, which finds
\* interaction.response.is_done() False and awaits safe_send_modal, or
\* safe_send_message, again; that call ends on the lock the interaction holds
Resume(i) ==
    /\ i \in DOMAIN probe.inter
    /\ probe.inter[i].pc \in WaitingPcs
    /\ probe.lock = Free
    /\ LET pair == probe.inter[i].pair
           again == probe.inter[i].pc = "wait_modal" /\ ~InCooldown(pair)
       IN  probe' = [probe EXCEPT
               !.last = IF again THEN [@ EXCEPT ![pair] = probe.clock] ELSE @,
               !.lock = i,
               !.inter = [@ EXCEPT ![i].pc = "nested"]]
    /\ UNCHANGED NotProbe

\* another handler's safe_message_edit: message.edit runs under the lock
EditAcquire ==
    /\ probe.lock = Free
    /\ probe' = [probe EXCEPT !.lock = Editing]
    /\ UNCHANGED NotProbe

EditRelease ==
    /\ probe.lock = Editing
    /\ probe' = [probe EXCEPT !.lock = Free]
    /\ UNCHANGED NotProbe

\* a second of loop.time() passes
ClockTick ==
    /\ probe.clock < MaxClock
    /\ probe' = [probe EXCEPT !.clock = @ + 1]
    /\ UNCHANGED NotProbe

InitModal ==
    /\ now = StartInstant
    /\ pollLoopRan = FALSE
    /\ reminderLoopRan = FALSE
    /\ server_settings = InitSettings
    /\ sent_events = {}
    /\ sent_events_seq = 0
    /\ war_participants = {}
    /\ players = (Users \X Guilds) \ {<<"D", 2>>}
    /\ presses = 0
    /\ failures = 0
    /\ delivered = {}
    /\ error_log = {}
    /\ dispatched = [g \in Guilds |-> [k \in EventTypes |-> 0]]
    /\ boot = FirstBoot
    /\ probe = [clock |-> cooldown_seconds, last |-> [p \in Pairs |-> 0],
                lock |-> Free, inter |-> <<>>]

NextModal ==
    \/ \E pair \in Pairs : Click(pair)
    \/ \E i \in 1..MaxClicks : Resume(i)
    \/ EditAcquire
    \/ EditRelease
    \/ ClockTick

SpecModal == InitModal /\ [][NextModal]_vars

\* the event loop resumes a coroutine that can go on, and message.edit ends
SpecModalFair ==
    SpecModal /\ WF_vars(\E i \in 1..MaxClicks : Resume(i)) /\ WF_vars(EditRelease)

\* C25: a click of a (guild, user) pair that had no accepted request within
\* the last 3 seconds gets the modal opened, whatever the other pair's
\* cooldown; a click inside the pair's cooldown gets the wait notice and no
\* modal.
C25_ModalOpensOutsideCooldown ==
    \A i \in 1..MaxClicks :
        [](Len(probe.inter) >= i =>
              IF probe.inter[i].accepted
              THEN <>(Len(probe.inter) >= i /\ probe.inter[i].opened)
              ELSE /\ ~probe.inter[i].opened
                   /\ <>(Len(probe.inter) >= i /\ probe.inter[i].noticed))

-----------------------------------------------------------------------------
(* bot.py: _discord_call run by two handlers at once (safe_message_edit of *)
(* two interactions).  probe holds the retries argument, the handler whose *)
(* with block holds _API_LOCK and each handler's invocation.               *)

Handlers == {"h1", "h2"}
Nobody == "nobody"

\* an invocation before its first attempt
NewCall == [pc |-> "acquire", attempt |-> 0, wait |-> 0, result |-> StillRunning]

\* variant: the sleep of the backoff is inside the with block
LockOnExit_HeldOver429(holder, o) == IF o.status = 429 THEN holder ELSE Nobody

\* leaving "async with _API_LOCK", by return or by exception, releases it
LockOnExit(holder, o) == Nobody

\* "async with _API_LOCK": the handler enters and the request goes out
Enter(h) ==
    /\ probe.calls[h].pc = "acquire"
    /\ probe.holder = Nobody
    /\ probe' = [probe EXCEPT !.holder = h, !.calls[h].pc = "call"]
    /\ UNCHANGED NotProbe

\* the API answers the request: return, or the except clause
Answered(h) ==
    /\ probe.calls[h].pc = "call"
    /\ \E o \in Outcomes :
          probe' = [probe EXCEPT
              !.holder = LockOnExit(@, o),
              !.calls[h] =
                  IF o.status = 200
                  THEN [@ EXCEPT !.pc = "done", !.result = ReturnedMessage]
                  ELSE IF o.status = 429
                  THEN [@ EXCEPT !.pc = "sleep",
                          !.wait = _retry_after_from_http_exception(o, DefaultRetryAfter)]
                  ELSE [@ EXCEPT !.pc = "done", !.result = RaisedHTTPException]]
    /\ UNCHANGED NotProbe

\* "await asyncio.sleep(wait)" is over: "continue"
Wake(h) ==
    /\ probe.calls[h].pc = "sleep"
    /\ probe' = [probe EXCEPT
           !.calls[h] =
               IF @.attempt + 1 > probe.retries
               THEN [@ EXCEPT !.attempt = @ + 1, !.pc = "done", !.result = ReturnedNone]
               ELSE [@ EXCEPT !.attempt = @ + 1, !.pc = "acquire"]]
    /\ UNCHANGED NotProbe

InitCalls ==
    /\ now = StartInstant
    /\ pollLoopRan = FALSE
    /\ reminderLoopRan = FALSE
    /\ server_settings = InitSettings
    /\ sent_events = {}
    /\ sent_events_seq = 0
    /\ war_participants = {}
    /\ players = (Users \X Guilds) \ {<<"D", 2>>}
    /\ presses = 0
    /\ failures = 0
    /\ delivered = {}
    /\ error_log = {}
    /\ dispatched = [g \in Guilds |-> [k \in EventTypes |-> 0]]
    /\ boot = FirstBoot
    /\ \E retries \in 0..MaxRetries :
           probe = [retries |-> retries, holder |-> Nobody,
                    calls |-> [h \in Handlers |-> NewCall]]

NextCalls ==
    \/ \E h \in Handlers : Enter(h)
    \/ \E h \in Handlers : Answered(h)
    \/ \E h \in Handlers : Wake(h)

SpecCalls == InitCalls /\ [][NextCalls]_vars

\* C26: at most one request issued through _discord_call is in flight at any
\* moment, the handler whose request is in flight is the one holding the
\* lock, and no handler holds the lock while it sleeps out a backoff, so the
\* lock is free for the other handler during that wait.
C26_OneCallInFlight ==
    /\ Cardinality({h \in Handlers : probe.calls[h].pc = "call"}) <= 1
    /\ \A h \in Handlers :
          /\ probe.calls[h].pc = "call" <=> probe.holder = h
          /\ probe.calls[h].pc = "sleep" => probe.holder # h

\* h1 sleeps out a backoff while the request of h2 is in flight
C26_Witness ==
    /\ probe.calls["h1"].pc = "sleep"
    /\ probe.calls["h2"].pc = "call"
    /\ probe.holder = "h2"

-----------------------------------------------------------------------------
(* bot.py: /warpoll, the poll an admin posts by hand.  probe holds, per     *)
(* guild, the week tokens under which an admin posted one.                  *)

\* the handler up to "await channel.send(...)"; the ledger is not written
warpoll_body(db, guild_id) ==
    LET config == get_war_config(guild_id)
        channel_id == config.war_channel_id
    IN  IF channel_id = 0 THEN db
        ELSE IF channel_id \notin GuildChannels[guild_id] THEN db
        ELSE Deliver(db, guild_id, channel_id, "war_poll", get_current_poll_week, {})

\* an admin of the guild runs /warpoll while the loops sleep, once a week
warpoll(guild_id) ==
    /\ pollLoopRan
    /\ reminderLoopRan
    /\ get_current_poll_week \notin probe.warpolled[guild_id]
    /\ SetDb(warpoll_body(Db, guild_id))
    /\ probe' = [probe EXCEPT !.warpolled[guild_id] = @ \cup {get_current_poll_week}]
    /\ UNCHANGED <<now, pollLoopRan, reminderLoopRan, server_settings, players,
                   presses, failures, boot>>

InitWarpoll ==
    /\ now \in {StartInstant + p : p \in 0..MaxPhase}
    /\ pollLoopRan = FALSE
    /\ reminderLoopRan = FALSE
    /\ server_settings = InitSettings
    /\ sent_events = {}
    /\ sent_events_seq = 0
    /\ war_participants = {}
    /\ players = (Users \X Guilds) \ {<<"D", 2>>}
    /\ presses = 0
    /\ failures = 0
    /\ delivered = {}
    /\ error_log = {}
    /\ dispatched = [g \in Guilds |-> [k \in EventTypes |-> 0]]
    /\ probe = [warpolled |-> [g \in Guilds |-> {}]]
    /\ boot = FirstBoot

\* every storage call and every send succeeds; admins post polls by hand
NextWarpoll ==
    \/ check_war_poll_schedule(NoFaults)
    \/ check_war_reminders(NoFaults)
    \/ Sleep
    \/ PressWarPollButtons
    \/ \E guild_id \in Guilds : warpoll(guild_id)

SpecWarpoll == InitWarpoll /\ [][NextWarpoll]_vars

\* a poll of the current week was posted in the guild, by the scheduler
\* (which marked it) or by an admin
PostedThisWeek(guild_id) ==
    \/ Marked(guild_id, "war_poll")
    \/ get_current_poll_week \in probe.warpolled[guild_id]

\* C27: once a poll of week W was posted in a guild, by the scheduler or by
\* an admin with /warpoll, a run of the poll task in week W leaves every vote
\* the guild's members cast under W in the store.
C27_PostedPollKeepsVotes ==
    [][\A g \in Guilds :
          (TaskRuns("war_poll") /\ PostedThisWeek(g))
             => VotesUnder(g, get_current_poll_week)
                   \subseteq VotesUnder(g, get_current_poll_week)']_vars

-----------------------------------------------------------------------------
(* bot.py: check_war_reminders over the week from Monday 00:05 to Sunday    *)
(* 24:00 UTC, for the war times and reminder leads /setwar accepts          *)

\* Monday 2024-01-01 00:05 UTC and Monday 2024-01-08 00:00 UTC
WeekStart == TickMinutes
WeekendEnd == 7 * DayMinutes

\* Saturday war times of guild 1 that are tried: 00:30 and 12:00
LeadWarTimes == {[hour |-> 0, minute |-> 30], [hour |-> 12, minute |-> 0]}
\* reminder leads that are tried, hours
Leads == {0, 1, 24}

\* member C of guild 1 voted Both on the week's poll, posted Monday at 00:00
InitLead ==
    /\ \E phase \in 0..MaxPhase : now = WeekStart + phase
    /\ pollLoopRan = FALSE
    /\ reminderLoopRan = FALSE
    /\ \E war \in LeadWarTimes, lead \in Leads :
           server_settings =
               [InitSettings EXCEPT ![1].poll_day = "Monday",
                                    ![1].poll_time_hour = 0,
                                    ![1].poll_time_minute = 0,
                                    ![1].saturday_war_hour = war.hour,
                                    ![1].saturday_war_minute = war.minute,
                                    ![1].reminder_hours_before = lead]
    /\ sent_events = {}
    /\ sent_events_seq = 0
    /\ war_participants =
           {[guild_id |-> 1, user_id |-> "C", poll_week |-> PollWeekAt(WeekStart),
             participation_type |-> "both"]}
    /\ players = (Users \X Guilds) \ {<<"D", 2>>}
    /\ presses = 0
    /\ failures = 0
    /\ delivered = {}
    /\ error_log = {}
    /\ dispatched = [g \in Guilds |-> [k \in EventTypes |-> 0]]
    /\ probe = NoProbe
    /\ boot = FirstBoot

\* check_war_reminders sleeps until its next iteration, 5 minutes later
SleepReminderTask ==
    /\ reminderLoopRan
    /\ now + TickMinutes < WeekendEnd
    /\ now' = now + TickMinutes
    /\ reminderLoopRan' = FALSE
    /\ delivered' = {}
    /\ error_log' = {}
    /\ UNCHANGED <<pollLoopRan, server_settings, sent_events, sent_events_seq,
                   war_participants, players, presses, failures, dispatched, probe,
                   boot>>

NextLead ==
    \/ check_war_reminders(NoFaults)
    \/ SleepReminderTask

SpecLead == InitLead /\ [][NextLead]_vars

\* the loop keeps running: every iteration and every sleep comes to its end
SpecLeadFair == SpecLead /\ WF_vars(NextLead)

\* C28: for every accepted war time and reminder lead, with the channel
\* resolvable and a member who plays that day, the Saturday reminder of the
\* guild is dispatched at some iteration of the week, also when the lead is
\* longer than the war's time of day so that the reminder instant lies on
\* Friday.  The iterations run from Monday to the end of Sunday.
C28_SaturdayReminderAnyLead ==
    <>(dispatched[1]["saturday_reminder"] >= 1)

-----------------------------------------------------------------------------
(* The scheduler for a guild whose war channel is unset or was deleted *)

\* war_channel_id of guild 1: not set (NULL), the guild's channel, or the id
\* of a channel that no longer exists
ChannelIds == {0, 11, 99}

InitChannels ==
    /\ now \in {StartInstant + p : p \in 0..MaxPhase}
    /\ pollLoopRan = FALSE
    /\ reminderLoopRan = FALSE
    /\ \E channel_id \in ChannelIds :
           server_settings = [InitSettings EXCEPT ![1].war_channel_id = channel_id]
    /\ sent_events = {}
    /\ sent_events_seq = 0
    /\ war_participants = {}
    /\ players = (Users \X Guilds) \ {<<"D", 2>>}
    /\ presses = 0
    /\ failures = 0
    /\ delivered = {}
    /\ error_log = {}
    /\ dispatched = [g \in Guilds |-> [k \in EventTypes |-> 0]]
    /\ probe = NoProbe
    /\ boot = FirstBoot

\* every storage call and every send succeeds; the members vote on polls
\* carrying the view of bot.py
NextChannels ==
    \/ check_war_poll_schedule(NoFaults)
    \/ check_war_reminders(NoFaults)
    \/ Sleep
    \/ PressWarPollButtons

SpecChannels == InitChannels /\ [][NextChannels]_vars

\* the guild's rows of the ledger and of the participation store
GuildLedger(guild_id) == {r \in sent_events : r.guild_id = guild_id}
GuildVotes(guild_id) == {x \in war_participants : x.guild_id = guild_id}

-----------------------------------------------------------------------------
(* views/join_views.py: the admin buttons of a join request.  probe holds  *)
(* the database backend and, per request, the join_requests row, the       *)
(* request_id the view got from create_join_request (cursor.lastrowid,     *)
(* which the PostgreSQL driver need not set), the applicant's profile and  *)
(* role, whether the message's buttons are disabled and the admins who     *)
(* have the rejection modal open.                                          *)

Requests == {1, 2}
Admins == {"admin1", "admin2"}
Backends == {"postgresql", "sqlite"}

\* Database.update_join_request_status: the row is written whatever its
\* status is
update_join_request_status(request, status, reviewed_by) ==
    [request EXCEPT !.status = status, !.reviewed_by = reviewed_by]

\* AdminApprovalView.approve_button: on SQLite the psycopg2 cursor of the
\* SELECT raises after the status was written and the handler only logs
approve_body(request, backend, admin) ==
    IF ~request.has_request_id
    THEN [request EXCEPT !.disabled = TRUE]
    ELSE IF backend = "sqlite"
    THEN update_join_request_status(request, "approved", admin)
    ELSE [update_join_request_status(request, "approved", admin)
             EXCEPT !.profile = TRUE, !.role = TRUE, !.disabled = TRUE]

approve_button(r, admin) ==
    /\ ~probe.requests[r].disabled
    /\ probe' = [probe EXCEPT
           !.requests[r] = approve_body(@, probe.backend, admin)]
    /\ UNCHANGED NotProbe

\* AdminApprovalView.reject_button: the modal opens, nothing is written
reject_button(r, admin) ==
    /\ ~probe.requests[r].disabled
    /\ admin \notin probe.requests[r].modals
    /\ probe' = [probe EXCEPT !.requests[r].modals = @ \cup {admin}]
    /\ UNCHANGED NotProbe

\* RejectionReasonModal.on_submit
on_submit_body(request, admin) ==
    [(IF request.has_request_id
      THEN update_join_request_status(request, "rejected", admin)
      ELSE request)
        EXCEPT !.disabled = TRUE, !.modals = @ \ {admin}]

on_submit(r, admin) ==
    /\ admin \in probe.requests[r].modals
    /\ probe' = [probe EXCEPT !.requests[r] = on_submit_body(@, admin)]
    /\ UNCHANGED NotProbe

\* a request as JoinRequestModal left it: pending, with its admin message
PendingRequest(has_request_id) ==
    [status |-> "pending", reviewed_by |-> None, has_request_id |-> has_request_id,
     profile |-> FALSE, role |-> FALSE, disabled |-> FALSE, modals |-> {}]

InitJoin ==
    /\ now = StartInstant
    /\ pollLoopRan = FALSE
    /\ reminderLoopRan = FALSE
    /\ server_settings = InitSettings
    /\ sent_events = {}
    /\ sent_events_seq = 0
    /\ war_participants = {}
    /\ players = (Users \X Guilds) \ {<<"D", 2>>}
    /\ presses = 0
    /\ failures = 0
    /\ delivered = {}
    /\ error_log = {}
    /\ dispatched = [g \in Guilds |-> [k \in EventTypes |-> 0]]
    /\ boot = FirstBoot
    /\ \E backend \in Backends, known \in [Requests -> BOOLEAN] :
           /\ backend = "sqlite" => \A r \in Requests : known[r]
           /\ probe = [backend |-> backend,
                       requests |-> [r \in Requests |-> PendingRequest(known[r])]]

NextJoin ==
    \/ \E r \in Requests, admin \in Admins : approve_button(r, admin)
    \/ \E r \in Requests, admin \in Admins : reject_button(r, admin)
    \/ \E r \in Requests, admin \in Admins : on_submit(r, admin)

SpecJoin == InitJoin /\ [][NextJoin]_vars

====
